---- MODULE Spec2Model ----
(***************************************************************************)
(* Quiz generation and scoring backend (Express server, in-memory          *)
(* answerStore) of the personalized content generator.                     *)
(*                                                                         *)
(* JavaScript values are records [t, s, n]: t is the typeof tag            *)
(* ("undefined" also stands for null), s the characters of a string as a   *)
(* sequence of one-character strings, n the value of a number.  Strings    *)
(* are kept as character sequences so that toLowerCase, trim and the       *)
(* /^[A-D]$/i test are computed, not assumed.                              *)
(***************************************************************************)
EXTENDS Integers, Sequences, FiniteSets, TLC

VARIABLES now, answerStore, pending, req, res, norm, parser, pdf, cmp, app

vars == <<now, answerStore, pending, req, res, norm, parser, pdf, cmp, app>>

(***************************************************************************)
(* Bounds of the model.                                                    *)
(***************************************************************************)
MaxClock == 1
MaxQuestions == 2
MaxPending == 1
MaxOptions == 3
MaxLevelLen == 5
MaxLongLevel == 17
MaxBodyLines == 5

\* Requests of the client that are in flight when it sends a request that its
\* loading flag guards, and when it sends an evaluation, which no flag guards.
MaxInFlight == 1
MaxEvaluations == 2

\* Answers the client records beyond the last question of a quiz, and beyond
\* the last learning preference question.
MaxExtraAnswers == 1
MaxExtraLearningAnswers == 0

(***************************************************************************)
(* JavaScript values.                                                      *)
(***************************************************************************)
Undef == [t |-> "undefined", s |-> <<>>, n |-> 0]
Str(chars) == [t |-> "string", s |-> chars, n |-> 0]
Num(k) == [t |-> "number", s |-> <<>>, n |-> k]

\* Math.round(0 / 0 * 100): the score of a quiz without questions.
NaN == -1

\* JavaScript truthiness: undefined, null, "" and 0 are falsy.
Truthy(v) ==
  CASE v.t = "undefined" -> FALSE
    [] v.t = "string" -> v.s # <<>>
    [] v.t = "number" -> v.n # 0

\* a || b
Or(a, b) == IF Truthy(a) THEN a ELSE b

\* opts[i] of an array of strings, zero-based; undefined outside the array.
At(opts, i) == IF i \in 0..(Len(opts) - 1) THEN Str(opts[i + 1]) ELSE Undef

\* items[i - 1] of an array of values, for the one-based position i.
At2(items, i) == IF i \in 1..Len(items) THEN items[i] ELSE Undef

LowerChar(c) ==
  CASE c = "A" -> "a"
    [] c = "B" -> "b"
    [] c = "C" -> "c"
    [] c = "D" -> "d"
    [] c = "X" -> "x"
    [] c = "Y" -> "y"
    [] OTHER -> c

\* String.prototype.toLowerCase
toLowerCase(chars) == [i \in 1..Len(chars) |-> LowerChar(chars[i])]

RECURSIVE trimStart(_)
trimStart(chars) ==
  IF chars # <<>> /\ Head(chars) = " " THEN trimStart(Tail(chars)) ELSE chars

RECURSIVE trimEnd(_)
trimEnd(chars) ==
  IF chars # <<>> /\ chars[Len(chars)] = " "
    THEN trimEnd(SubSeq(chars, 1, Len(chars) - 1))
    ELSE chars

\* String.prototype.trim
trim(chars) == trimEnd(trimStart(chars))

\* /^[A-D]$/i.test(chars)
IsLetterAD(chars) ==
  Len(chars) = 1 /\ chars[1] \in {"A", "B", "C", "D", "a", "b", "c", "d"}

\* chars.toUpperCase().charCodeAt(0) - 65 for a string that passed the test
LetterIndex(chars) ==
  CASE toLowerCase(chars)[1] = "a" -> 0
    [] toLowerCase(chars)[1] = "b" -> 1
    [] toLowerCase(chars)[1] = "c" -> 2
    [] toLowerCase(chars)[1] = "d" -> 3

(***************************************************************************)
(* POST /generate: the answer key.                                         *)
(***************************************************************************)
\* A mutant of normalizedAnswer: no "|| opts[0]" after opts[idx] and opts[ans].
normalizedAnswerNoFallback(q) ==
  LET ans == q.answer
      opts == q.options
  IN  IF ~Truthy(ans) THEN Or(At(opts, 0), Str(<<>>))
      ELSE IF ans.t = "string" /\ IsLetterAD(ans.s) /\ Len(opts) > 0
        THEN At(opts, LetterIndex(ans.s))
      ELSE IF ans.t = "number" /\ Len(opts) > 0
        THEN At(opts, ans.n)
      ELSE ans

\* A mutant of normalizedAnswer: the letter test is /^[A-D]$/ without the i flag.
normalizedAnswerCaseSensitive(q) ==
  LET ans == q.answer
      opts == q.options
  IN  IF ~Truthy(ans) THEN Or(At(opts, 0), Str(<<>>))
      ELSE IF ans.t = "string" /\ IsLetterAD(ans.s) /\ toLowerCase(ans.s) # ans.s
              /\ Len(opts) > 0
        THEN Or(At(opts, LetterIndex(ans.s)), At(opts, 0))
      ELSE IF ans.t = "number" /\ Len(opts) > 0
        THEN Or(At(opts, ans.n), At(opts, 0))
      ELSE ans

\* The callback of questions.map: the stored answer of one question.
normalizedAnswer(q) ==
  LET ans == q.answer
      opts == q.options
  IN  IF ~Truthy(ans) THEN Or(At(opts, 0), Str(<<>>))
      ELSE IF ans.t = "string" /\ IsLetterAD(ans.s) /\ Len(opts) > 0
        THEN Or(At(opts, LetterIndex(ans.s)), At(opts, 0))
      ELSE IF ans.t = "number" /\ Len(opts) > 0
        THEN Or(At(opts, ans.n), At(opts, 0))
      ELSE ans

normalizedAnswers(questions) ==
  [i \in 1..Len(questions) |-> normalizedAnswer(questions[i])]

(***************************************************************************)
(* Inputs of the server: what the question generator hands back, and what  *)
(* clients send.                                                           *)
(***************************************************************************)
Question(answer, options) ==
  [question |-> "Q", answer |-> answer, options |-> options]

OptsXY == << <<"x">>, <<"Y">> >>

\* Questions the generator may return to POST /generate.
QuestionPool ==
  { Question(Str(<<"b">>), OptsXY),
    Question(Num(1), OptsXY),
    Question(Str(<<"x">>), OptsXY),
    Question(Undef, <<>>) }

RECURSIVE SeqsUpTo(_, _)
SeqsUpTo(S, k) ==
  IF k = 0 THEN {<<>>}
  ELSE LET shorter == SeqsUpTo(S, k - 1)
       IN  shorter \cup {Append(q, e) : q \in {x \in shorter : Len(x) = k - 1}, e \in S}

\* Outcomes of await generateQuestions(text).
ProviderResults ==
  {[kind |-> "array", questions |-> qs] : qs \in SeqsUpTo(QuestionPool, MaxQuestions)}
    \cup {[kind |-> "notArray", questions |-> <<>>],
          [kind |-> "throws", questions |-> <<>>]}

\* Entries of a submitted answers array; an entry is missing where the array is
\* shorter than the quiz.
SubmittedValues == {Str(<<"x">>), Str(<<"Y">>), Str(<<"y", " ">>)}

\* req.body.answers of POST /evaluate-quiz: an array, or missing.
SubmittedAnswers ==
  {[isArray |-> TRUE, items |-> a] : a \in SeqsUpTo(SubmittedValues, MaxQuestions)}
    \cup {[isArray |-> FALSE, items |-> <<>>]}

\* req.body.topic of POST /generate.
Topics == {Undef, Str(<<>>), Str(<<" ">>), Str(<<"t">>)}

\* req.body.docText of POST /generate, by what line 66 asks of it.
DocTexts == {"absent", "short", "long"}

QuizIds == 0..(MaxClock + 1)

(***************************************************************************)
(* Requests and responses.                                                 *)
(***************************************************************************)
NoAnswers == [isArray |-> FALSE, items |-> <<>>]

Request(route, quizId, answers, docText, topic) ==
  [route |-> route, quizId |-> quizId, answers |-> answers,
   docText |-> docText, topic |-> topic,
   correctAnswers |-> NoAnswers, provider |-> "none"]

NoRequest == Request("none", 0, NoAnswers, "absent", Undef)

\* header: the value of X-Quiz-Id as a set, empty when the header is not set.
Response(status, error, header, questions, success, correct, wrong, score) ==
  [status |-> status, error |-> error, header |-> header, questions |-> questions,
   success |-> success, correct |-> correct, wrong |-> wrong, score |-> score,
   total |-> 0, percentage |-> 0, level |-> ""]

NoResponse == Response(0, "", {}, <<>>, FALSE, 0, 0, 0)

ErrorResponse(status, error) == Response(status, error, {}, <<>>, FALSE, 0, 0, 0)

NormIdle == [q |-> Question(Undef, <<>>), out |-> Undef, again |-> Undef, steps |-> 0]

EmptyStore == [id \in {} |-> 0]

\* The text parser of the client before it is given a text.
ParserIdle == [text |-> Undef, out |-> <<>>, done |-> FALSE]

\* The PDF service and the scoring comparison at rest.
PdfIdle ==
  [phase |-> "idle", via |-> "none", rpc |-> <<>>, up |-> FALSE, fetched |-> <<>>,
   parse |-> <<>>, parsed |-> <<>>, replies |-> <<>>, proxy |-> <<>>]

CmpIdle ==
  [phase |-> "idle", questions |-> <<>>, selected |-> <<>>, response |-> <<>>,
   server |-> <<>>, client |-> <<>>, old |-> <<>>, level |-> <<>>]

\* The state of the App component after mounting (the useState initial values);
\* null is the empty tuple, and inflight holds the requests not yet answered.
AppIdle ==
  [githubLink |-> <<>>, extractedContent |-> "absent", isExtracted |-> FALSE,
   questions |-> <<>>, index |-> 0, score |-> 0, correctCount |-> <<>>,
   selected |-> Str(<<>>), showResult |-> FALSE, quizId |-> <<>>,
   userAnswers |-> <<>>, topic |-> <<>>, showTopicInput |-> FALSE,
   learningQuestions |-> <<>>, learningIndex |-> 0,
   learningSelected |-> Str(<<>>), learningAnswers |-> <<>>,
   showLearningQuestions |-> FALSE, learningStyleId |-> <<>>,
   showPersonalizedContent |-> FALSE, personalizedContent |-> <<>>,
   levelTestQuestions |-> <<>>, levelTestIndex |-> 0,
   levelTestSelected |-> Str(<<>>), levelTestAnswers |-> <<>>,
   showLevelTest |-> FALSE, detectedLevel |-> <<>>, levelTestScore |-> 0,
   showLevelResult |-> FALSE, personalizedQuestions |-> <<>>,
   personalIndex |-> 0, personalSelected |-> Str(<<>>),
   showPersonalizedQuiz |-> FALSE, personalAnswers |-> <<>>,
   showGenerateTopicButton |-> FALSE, generatedTopics |-> <<>>,
   loading |-> FALSE, error |-> "", successMessage |-> "", inflight |-> <<>>]

Init ==
  /\ now = 0
  /\ answerStore = EmptyStore
  /\ pending = 0
  /\ req = NoRequest
  /\ res = NoResponse
  /\ norm = NormIdle
  /\ parser = ParserIdle
  /\ pdf = PdfIdle
  /\ cmp = CmpIdle
  /\ app = AppIdle

(***************************************************************************)
(* Date.now() advances.                                                    *)
(***************************************************************************)
Tick ==
  /\ now < MaxClock
  /\ now' = now + 1
  /\ UNCHANGED <<answerStore, pending, req, res, norm, parser, pdf, cmp, app>>

(***************************************************************************)
(* POST /generate                                                          *)
(***************************************************************************)
\* Lines 66-72: is there a text to generate from?
HasText(docText, topic) ==
  \/ docText = "long"
  \/ Truthy(topic) /\ trim(topic.s) # <<>>

\* 400 when neither docText nor topic is usable.
GenerateBadRequest ==
  \E docText \in DocTexts, topic \in Topics :
    /\ ~HasText(docText, topic)
    /\ req' = Request("generate", 0, NoAnswers, docText, topic)
    /\ res' = ErrorResponse(400, "docText or topic required")
    /\ UNCHANGED <<now, answerStore, pending, norm, parser, pdf, cmp, app>>

\* The handler up to await generateQuestions(text).
GenerateStart ==
  \E docText \in DocTexts, topic \in Topics :
    /\ HasText(docText, topic)
    /\ pending < MaxPending
    /\ pending' = pending + 1
    /\ UNCHANGED <<now, answerStore, req, res, norm, parser, pdf, cmp, app>>

\* res.json(questions): the body of the successful response.
GenerateBody(questions) == questions

StoreSet(store, quizId, entry) ==
  [id \in DOMAIN store \cup {quizId} |-> IF id = quizId THEN entry ELSE store[id]]

\* The handler after the await: store the quiz and answer with the questions.
GenerateFinish ==
  \E result \in ProviderResults :
    /\ pending > 0
    /\ pending' = pending - 1
    /\ req' = Request("generate", 0, NoAnswers, "absent", Undef)
    /\ IF result.kind = "array"
         THEN LET questions == result.questions
                  quizId == now
              IN  /\ answerStore' =
                       StoreSet(answerStore, quizId,
                                [questions |-> questions,
                                 answers |-> normalizedAnswers(questions)])
                  /\ res' = Response(200, "", {quizId}, GenerateBody(questions),
                                      FALSE, 0, 0, 0)
         ELSE /\ res' = ErrorResponse(500, "Question generation failed")
              /\ UNCHANGED answerStore
    /\ UNCHANGED <<now, norm, parser, pdf, cmp, app>>

(***************************************************************************)
(* POST /evaluate-quiz                                                     *)
(***************************************************************************)
\* A mutant of Stored: an unknown quizId reads as a quiz without questions.
StoredOrEmpty(store, quizId) ==
  IF quizId \in DOMAIN store
    THEN <<store[quizId]>>
    ELSE <<[questions |-> <<>>, answers |-> <<>>]>>

\* answerStore[quizId]: <<entry>>, or <<>> for undefined.
Stored(store, quizId) ==
  IF quizId \in DOMAIN store THEN <<store[quizId]>> ELSE <<>>

\* (v || "").toLowerCase() raises a TypeError when v is a non-zero number.
LowerRaises(v) == Or(v, Str(<<>>)).t # "string"

\* (v || "").toLowerCase()
Lowered(v) == toLowerCase(Or(v, Str(<<>>)).s)

\* The test of line 173 for stored answer ans and submitted entry sub.
Matches(ans, sub) == Lowered(ans) = Lowered(sub)

\* Does the forEach of lines 172-176 raise?
ScoringRaises(stored, answers) ==
  \E i \in 1..Len(stored.answers) :
    \/ ~answers.isArray
    \/ LowerRaises(stored.answers[i])
    \/ LowerRaises(At2(answers.items, i))

Round(correct, total) ==
  IF total = 0 THEN NaN ELSE (200 * correct + total) \div (2 * total)

\* The response of the handler for a request body {quizId, answers}.
EvaluateResponse(store, quizId, answers) ==
  IF Stored(store, quizId) = <<>>
    THEN ErrorResponse(404, "Quiz not found")
    ELSE LET stored == Stored(store, quizId)[1]
             total == Len(stored.answers)
             correct == Cardinality({i \in 1..total :
                            Matches(stored.answers[i], At2(answers.items, i))})
         IN  IF ScoringRaises(stored, answers)
               THEN ErrorResponse(500, "TypeError")
               ELSE Response(200, "", {}, <<>>, TRUE, correct, total - correct,
                             Round(correct, total))

\* A mutant of EvaluateQuiz: a quiz is dropped from the store once it is scored.
EvaluateQuizOnce ==
  \E quizId \in QuizIds, answers \in SubmittedAnswers :
    /\ req' = Request("evaluate-quiz", quizId, answers, "absent", Undef)
    /\ res' = EvaluateResponse(answerStore, quizId, answers)
    /\ answerStore' = [id \in DOMAIN answerStore \ {quizId} |-> answerStore[id]]
    /\ UNCHANGED <<now, pending, norm, parser, pdf, cmp, app>>

EvaluateQuiz ==
  \E quizId \in QuizIds, answers \in SubmittedAnswers :
    /\ req' = Request("evaluate-quiz", quizId, answers, "absent", Undef)
    /\ res' = EvaluateResponse(answerStore, quizId, answers)
    /\ UNCHANGED <<now, answerStore, pending, norm, parser, pdf, cmp, app>>

(***************************************************************************)
(* POST /evaluate-level                                                    *)
(***************************************************************************)
Arr(items) == [isArray |-> TRUE, items |-> items]

LevelRequest(answers, correctAnswers) ==
  [Request("evaluate-level", 0, answers, "absent", Undef)
     EXCEPT !.correctAnswers = correctAnswers]

\* A mutant of LevelMatches: the two sides are lower-cased but not trimmed.
LevelMatchesUntrimmed(ans, cor) == Lowered(ans) = Lowered(cor)

\* The test of line 308 for a submitted entry and the correct entry.
LevelMatches(ans, cor) == trim(Lowered(ans)) = trim(Lowered(cor))

\* Does the forEach of lines 307-311 raise?
LevelRaises(answers, correctAnswers) ==
  \E i \in 1..Len(answers) :
    LowerRaises(answers[i]) \/ LowerRaises(At2(correctAnswers, i))

\* Line 314: Math.round((correct / total) * 100), 0 for an empty test.
Percentage(correct, total) ==
  IF total > 0 THEN (200 * correct + total) \div (2 * total) ELSE 0

\* A mutant of LevelOf: the lower bounds are exclusive.
LevelOfExclusive(percentage) ==
  IF percentage > 80 THEN "Advanced"
  ELSE IF percentage > 60 THEN "Intermediate"
  ELSE "Beginner"

\* Lines 317-322.
LevelOf(percentage) ==
  IF percentage >= 80 THEN "Advanced"
  ELSE IF percentage >= 60 THEN "Intermediate"
  ELSE "Beginner"

\* Lines 324-330: the body of a successful evaluation.
LevelResult(correct, total) ==
  [Response(200, "", {}, <<>>, TRUE, correct, 0, 0)
     EXCEPT !.total = total,
            !.percentage = Percentage(correct, total),
            !.level = LevelOf(Percentage(correct, total))]

LevelCorrect(answers, correctAnswers) ==
  Cardinality({i \in 1..Len(answers) :
                 LevelMatches(answers[i], At2(correctAnswers, i))})

\* A mutant of EvaluateLevelResponse: the lengths are not compared.
EvaluateLevelResponseAnyLength(answers, correctAnswers) ==
  IF ~answers.isArray \/ ~correctAnswers.isArray
    THEN ErrorResponse(400, "answers and correctAnswers arrays required")
  ELSE IF LevelRaises(answers.items, correctAnswers.items)
    THEN ErrorResponse(500, "Level evaluation failed")
  ELSE LevelResult(LevelCorrect(answers.items, correctAnswers.items),
                   Len(answers.items))

\* The response of the handler for a request body {answers, correctAnswers}.
EvaluateLevelResponse(answers, correctAnswers) ==
  IF ~answers.isArray \/ ~correctAnswers.isArray
    THEN ErrorResponse(400, "answers and correctAnswers arrays required")
  ELSE IF Len(answers.items) # Len(correctAnswers.items)
    THEN ErrorResponse(400, "answers and correctAnswers length mismatch")
  ELSE IF LevelRaises(answers.items, correctAnswers.items)
    THEN ErrorResponse(500, "Level evaluation failed")
  ELSE LevelResult(LevelCorrect(answers.items, correctAnswers.items),
                   Len(answers.items))

\* Requests the server model is probed with: a missing array, a full match
\* and an entry that is a number.
LevelProbes ==
  { LevelRequest(NoAnswers, NoAnswers),
    LevelRequest(Arr(<<Str(<<"x">>)>>), Arr(<<Str(<<"x">>)>>)),
    LevelRequest(Arr(<<Num(1)>>), Arr(<<Str(<<"x">>)>>)) }

EvaluateLevel ==
  \E r \in LevelProbes :
    /\ req' = r
    /\ res' = EvaluateLevelResponse(r.answers, r.correctAnswers)
    /\ UNCHANGED <<now, answerStore, pending, norm, parser, pdf, cmp, app>>

Next ==
  \/ Tick
  \/ GenerateBadRequest
  \/ GenerateStart
  \/ GenerateFinish
  \/ EvaluateQuiz
  \/ EvaluateLevel

Spec == Init /\ [][Next]_vars

(***************************************************************************)
(* The answer normalizer on its own: one question is normalized, and the   *)
(* result is normalized once more against the same options.                *)
(***************************************************************************)
OptionTexts == {<<"x">>, <<"Y">>, <<"A">>, <<"B">>}

RawAnswers ==
  {Undef, Str(<<>>), Str(<<"x">>), Str(<<"Y">>), Str(<<" ", "x">>)}
    \cup {Str(<<c>>) : c \in {"A", "B", "C", "D", "a", "b", "c", "d"}}
    \cup {Num(k) : k \in (-1)..(MaxOptions + 1)}

NormalizeInputs ==
  {Question(a, o) : a \in RawAnswers, o \in SeqsUpTo(OptionTexts, MaxOptions)}

InitNormalize ==
  /\ now = 0
  /\ answerStore = EmptyStore
  /\ pending = 0
  /\ req = NoRequest
  /\ res = NoResponse
  /\ norm \in {[q |-> q, out |-> Undef, again |-> Undef, steps |-> 0] :
                 q \in NormalizeInputs}
  /\ parser = ParserIdle
  /\ pdf = PdfIdle
  /\ cmp = CmpIdle
  /\ app = AppIdle

NormalizeOnce ==
  /\ norm.steps = 0
  /\ norm' = [norm EXCEPT !.out = normalizedAnswer(norm.q), !.steps = 1]
  /\ UNCHANGED <<now, answerStore, pending, req, res, parser, pdf, cmp, app>>

NormalizeAgain ==
  /\ norm.steps = 1
  /\ norm' = [norm EXCEPT
                !.again = normalizedAnswer([norm.q EXCEPT !.answer = norm.out]),
                !.steps = 2]
  /\ UNCHANGED <<now, answerStore, pending, req, res, parser, pdf, cmp, app>>

NextNormalize ==
  \/ NormalizeOnce
  \/ NormalizeAgain

SpecNormalize == InitNormalize /\ [][NextNormalize]_vars

(***************************************************************************)
(* The level assessment endpoints on their own: one request arrives and is *)
(* answered.  Neither handler reads or writes the quiz store.              *)
(***************************************************************************)
RECURSIVE Repeat(_, _)
Repeat(v, n) == IF n = 0 THEN <<>> ELSE Append(Repeat(v, n - 1), v)

\* Entries of req.body.answers and of req.body.correctAnswers.
LevelValues == {Str(<<" ", "X">>), Str(<<"Y">>), Undef}
CorrectValues == {Str(<<"x">>), Undef}

\* Every pair of arrays of one length up to MaxLevelLen.
EqualLengthRequests ==
  {LevelRequest(Arr(a), Arr(c)) :
     <<a, c>> \in {p \in SeqsUpTo(LevelValues, MaxLevelLen)
                           \X SeqsUpTo(CorrectValues, MaxLevelLen) :
                     Len(p[1]) = Len(p[2])}}

\* Longer tests, the first k answers right and the others wrong.
LongRequests ==
  {LevelRequest(Arr(Repeat(Str(<<"x">>), nk[2])
                      \o Repeat(Str(<<"Y">>), nk[1] - nk[2])),
                Arr(Repeat(Str(<<"x">>), nk[1]))) :
     nk \in {p \in ((MaxLevelLen + 1)..MaxLongLevel) \X (0..MaxLongLevel) :
               p[2] <= p[1]}}

\* Arrays of different lengths, and bodies where an array is missing.
MalformedRequests ==
  {LevelRequest(Arr(Repeat(Str(<<"x">>), n)), Arr(Repeat(Str(<<"x">>), m))) :
     <<n, m>> \in {p \in (0..MaxLevelLen) \X (0..MaxLevelLen) : p[1] # p[2]}}
    \cup {LevelRequest(NoAnswers, Arr(c)) : c \in SeqsUpTo(CorrectValues, 1)}
    \cup {LevelRequest(Arr(a), NoAnswers) : a \in SeqsUpTo(LevelValues, 1)}
    \cup {LevelRequest(NoAnswers, NoAnswers)}

LevelRequests ==
  EqualLengthRequests \cup LongRequests \cup MalformedRequests \cup LevelProbes

\* POST /generate-level-test
LevelTestRequest(topic) == Request("generate-level-test", 0, NoAnswers, "absent", topic)

MockOptions == << <<"Option A">>, <<"Option B">>, <<"Option C">>, <<"Option D">> >>

LevelQuestion(question, topic, answer, difficulty) ==
  [question |-> <<question, topic>>, options |-> MockOptions,
   answer |-> Str(<<answer>>), difficulty |-> difficulty]

\* Lines 237-268.
mockQuestions(topic) ==
  << LevelQuestion("What is the basic definition of", topic, "Option A", "Beginner"),
     LevelQuestion("How would you apply", topic, "Option B", "Intermediate"),
     LevelQuestion("What is an advanced technique in", topic, "Option C", "Advanced"),
     LevelQuestion("How does it relate to other concepts", topic, "Option A", "Intermediate"),
     LevelQuestion("What are the edge cases in", topic, "Option D", "Advanced") >>

\* What happens between line 231 and line 280: the SDK has no GoogleGenerativeAI
\* export, generateContent raises, the candidate text is empty, the text is not
\* JSON, or the text parses to a value.
ProviderOutcomes ==
  {[kind |-> k, payload |-> <<>>] : k \in {"noSdk", "throws", "empty", "unparseable"}}
    \cup {[kind |-> "json", payload |-> p] :
            p \in {<<>>, <<LevelQuestion("What is", Str(<<"t">>), "Option A", "Beginner")>>}}

HasTopic(topic) == Truthy(topic) /\ trim(topic.s) # <<>>

QuestionsResponse(questions) == Response(200, "", {}, questions, FALSE, 0, 0, 0)

\* The response of the handler for a topic and what the provider did.
GenerateLevelTestResponse(topic, outcome) ==
  IF ~HasTopic(topic) THEN ErrorResponse(400, "topic required")
  ELSE IF outcome.kind = "noSdk" THEN QuestionsResponse(mockQuestions(topic))
  ELSE IF outcome.kind = "json" THEN QuestionsResponse(outcome.payload)
  ELSE ErrorResponse(500, "Level test generation failed")

InitLevel ==
  /\ now = 0
  /\ answerStore = EmptyStore
  /\ pending = 0
  /\ req \in LevelRequests \cup {LevelTestRequest(topic) : topic \in Topics}
  /\ res = NoResponse
  /\ norm = NormIdle
  /\ parser = ParserIdle
  /\ pdf = PdfIdle
  /\ cmp = CmpIdle
  /\ app = AppIdle

AnswerEvaluateLevel ==
  /\ req.route = "evaluate-level"
  /\ res = NoResponse
  /\ res' = EvaluateLevelResponse(req.answers, req.correctAnswers)
  /\ UNCHANGED <<now, answerStore, pending, req, norm, parser, pdf, cmp, app>>

AnswerGenerateLevelTest ==
  /\ req.route = "generate-level-test"
  /\ res = NoResponse
  /\ \E outcome \in ProviderOutcomes :
       /\ res' = GenerateLevelTestResponse(req.topic, outcome)
       /\ req' = [req EXCEPT !.provider =
                    IF HasTopic(req.topic) THEN outcome.kind ELSE "none"]
  /\ UNCHANGED <<now, answerStore, pending, norm, parser, pdf, cmp, app>>

NextLevel ==
  \/ AnswerEvaluateLevel
  \/ AnswerGenerateLevelTest

SpecLevel == InitLevel /\ [][NextLevel]_vars

(***************************************************************************)
(* parseQuestionsFromText of the client.  A text is kept as its lines      *)
(* (text.split("\n")) and a line as its characters; a word, a URL, the     *)
(* words "Correct Answer:" and the section header are single symbols, so   *)
(* the regular expressions of the parser are computed symbol by symbol.    *)
(***************************************************************************)
Marker == "Correct Answer:"
Header == "**Multiple-Choice Questions**"
Url == "http://u"

Digits == {"1", "2", "3"}
Letters == {"A", "B", "C", "D", "a", "b", "c", "d"}

\* The JavaScript value handed to the parser: a string by its lines, or not a string.
Text(lines) == [t |-> "string", s |-> lines, n |-> 0]

EmptyText == Text(<< <<>> >>)

\* !text || typeof text !== "string"
NotParsable(text) == text.t # "string" \/ text = EmptyText

\* The first character of a symbol when /[A-D]/i matches it, "" otherwise.
LetterOf(symbol) ==
  CASE symbol \in Letters -> symbol
    [] symbol \in {"bar", "baz"} -> "b"
    [] OTHER -> ""

\* c.charCodeAt(0)
charCodeAt(c) ==
  CASE c = "A" -> 65 [] c = "B" -> 66 [] c = "C" -> 67 [] c = "D" -> 68
    [] c = "a" -> 97 [] c = "b" -> 98 [] c = "c" -> 99 [] c = "d" -> 100

\* Lines 96-97: the lines after the first section header and before the next,
\* or the whole text when there is no header.
RECURSIVE UpToHeader(_)
UpToHeader(lines) ==
  IF lines = <<>> \/ Head(lines) = <<Header>> THEN <<>>
  ELSE <<Head(lines)>> \o UpToHeader(Tail(lines))

RECURSIVE AfterHeader(_)
AfterHeader(lines) ==
  IF lines = <<>> THEN <<>>
  ELSE IF Head(lines) = <<Header>> THEN Tail(lines)
  ELSE AfterHeader(Tail(lines))

mcqSection(lines) ==
  IF \A i \in 1..Len(lines) : lines[i] # <<Header>>
    THEN lines
    ELSE UpToHeader(AfterHeader(lines))

\* /^\d+\./ at the start of a line.
RECURSIVE DigitRun(_)
DigitRun(line) ==
  IF line # <<>> /\ Head(line) \in Digits THEN 1 + DigitRun(Tail(line)) ELSE 0

StartsNumbered(line) ==
  DigitRun(line) > 0 /\ Len(line) > DigitRun(line) /\ line[DigitRun(line) + 1] = "."

\* Line 100: split(/\n(?=\d+\.)/), a new block before every numbered line.
RECURSIVE questionBlocks(_)
questionBlocks(lines) ==
  IF Len(lines) <= 1 THEN <<lines>>
  ELSE LET rest == questionBlocks(Tail(lines))
       IN  IF StartsNumbered(lines[2])
             THEN <<(<<Head(lines)>>)>> \o rest
             ELSE <<(<<Head(lines)>> \o rest[1])>> \o Tail(rest)

\* Line 103: block.trim().split("\n").filter(l => l.trim())
blockLines(block) == SelectSeq(block, LAMBDA l : trim(l) # <<>>)

\* Line 107: replace(/^\d+\.\s*/, "")
StripNumber(line) ==
  IF StartsNumbered(line)
    THEN trimStart(SubSeq(line, DigitRun(line) + 2, Len(line)))
    ELSE line

\* Line 109: replace(/http[s]?:\/\/\S+/g, "")
RECURSIVE SkipNonSpace(_)
SkipNonSpace(line) ==
  IF line # <<>> /\ Head(line) # " " THEN SkipNonSpace(Tail(line)) ELSE line

RECURSIVE RemoveUrls(_)
RemoveUrls(line) ==
  IF line = <<>> THEN <<>>
  ELSE IF Head(line) = Url THEN RemoveUrls(SkipNonSpace(Tail(line)))
  ELSE <<Head(line)>> \o RemoveUrls(Tail(line))

\* Lines 107-109.
questionText(lines) == trim(RemoveUrls(trim(StripNumber(trimStart(lines[1])))))

\* An optional symbol at the start of a string: \*?
SkipOptional(chars, symbol) ==
  IF chars # <<>> /\ Head(chars) = symbol THEN Tail(chars) ELSE chars

\* Does chars start with \s*\*?Correct Answer: ?
StartsMarker(chars) ==
  LET rest == SkipOptional(trimStart(chars), "*")
  IN  rest # <<>> /\ Head(rest) = Marker

\* Line 119: does /^([A-D])[.)]\s*(.+?)(?:\s*\*?Correct Answer:\*?.*)?$/i match?
optionMatch(line) ==
  Len(line) >= 3 /\ line[1] \in Letters /\ line[2] \in {".", ")"}

\* Group 2 of the match: the shortest non-empty text after the letter that is
\* followed by the end of the line or by a correct-answer fragment.
RECURSIVE LazyBody(_, _)
LazyBody(chars, k) ==
  IF k >= Len(chars) \/ StartsMarker(SubSeq(chars, k + 1, Len(chars)))
    THEN SubSeq(chars, 1, k)
    ELSE LazyBody(chars, k + 1)

optionBody(line) == LazyBody(trimStart(SubSeq(line, 3, Len(line))), 1)

\* Does /^\*?Correct Answer:\*?\s*[A-D]?\s*$/i match chars?
MarkerToEnd(chars) ==
  LET a == SkipOptional(chars, "*")
  IN  /\ a # <<>>
      /\ Head(a) = Marker
      /\ LET b == trimStart(SkipOptional(Tail(a), "*"))
             c == IF b # <<>> /\ Head(b) \in Letters THEN Tail(b) ELSE b
         IN  trimStart(c) = <<>>

\* Line 125: replace(/\*?Correct Answer:\*?\s*[A-D]?\s*$/i, "")
RECURSIVE StripMarker(_, _)
StripMarker(chars, k) ==
  IF k > Len(chars) THEN chars
  ELSE IF MarkerToEnd(SubSeq(chars, k, Len(chars))) THEN SubSeq(chars, 1, k - 1)
  ELSE StripMarker(chars, k + 1)

\* Lines 123-125.
optionText(line) == trim(StripMarker(trim(optionBody(line)), 1))

\* Line 132: match[1] of /\*?Correct Answer:\*?\s*([A-D])/i, "" when no match.
RECURSIVE markerLetter(_)
markerLetter(chars) ==
  IF chars = <<>> THEN ""
  ELSE LET after == trimStart(SkipOptional(Tail(chars), "*"))
       IN  IF Head(chars) = Marker /\ after # <<>> /\ LetterOf(Head(after)) # ""
             THEN LetterOf(Head(after))
             ELSE markerLetter(Tail(chars))

\* Lines 115-137: the options recovered from lines i.. of the block.
RECURSIVE recoveredOptions(_, _)
recoveredOptions(lines, i) ==
  IF i > Len(lines) THEN <<>>
  ELSE LET line == trim(lines[i])
       IN  (IF optionMatch(line) /\ optionText(line) # <<>>
              THEN <<optionText(line)>> ELSE <<>>)
             \o recoveredOptions(lines, i + 1)

\* Lines 112-137: correctAnswer after lines i.., "" for null.
RECURSIVE correctAnswer(_, _, _)
correctAnswer(lines, i, sofar) ==
  IF i > Len(lines) THEN sofar
  ELSE LET line == trim(lines[i])
       IN  correctAnswer(lines, i + 1,
                         IF optionMatch(line) /\ markerLetter(line) # ""
                           THEN markerLetter(line) ELSE sofar)

\* A mutant of finalOptions: every recovered option is kept.
finalOptionsAll(options) == options

\* Line 142: options.slice(0, 4)
finalOptions(options) ==
  SubSeq(options, 1, IF Len(options) < 4 THEN Len(options) ELSE 4)

\* Lines 144-151.
answerIndex(letter, options) ==
  IF letter = "" THEN 0
  ELSE IF charCodeAt(letter) - 65 < 0 \/ charCodeAt(letter) - 65 >= Len(options) THEN 0
  ELSE charCodeAt(letter) - 65

\* A mutant of Emits: two options are enough.
EmitsFromTwo(text, options) == text # <<>> /\ Len(options) >= 2

\* Line 140: questionText && options.length >= 3
Emits(text, options) == text # <<>> /\ Len(options) >= 3

\* Lines 102-159: the questions pushed for one block, none or one.
parseBlock(block) ==
  LET lines == blockLines(block)
  IN  IF Len(lines) < 4 THEN <<>>
      ELSE LET options == recoveredOptions(lines, 2)
               letter == correctAnswer(lines, 2, "")
           IN  IF Emits(questionText(lines), options)
                 THEN <<[question |-> questionText(lines),
                         options |-> finalOptions(options),
                         answer |-> Or(At(finalOptions(options),
                                          answerIndex(letter, finalOptions(options))),
                                       At(finalOptions(options), 0)).s]>>
                 ELSE <<>>

RECURSIVE parseBlocks(_)
parseBlocks(blocks) ==
  IF blocks = <<>> THEN <<>>
  ELSE parseBlock(Head(blocks)) \o parseBlocks(Tail(blocks))

parseQuestionsFromText(text) ==
  IF NotParsable(text) THEN <<>>
  ELSE parseBlocks(questionBlocks(mcqSection(text.s)))

\* Texts given to the parser.
QuestionLines ==
  { <<"1", ".", " ", "What">>,
    <<"2", ".", " ", "What", " ", Url>>,
    <<"What">>,
    <<"3", ".">> }

PlainA == <<"A", ")", " ", "foo">>
PlainB == <<"B", ")", " ", "bar">>
PlainC == <<"C", ".", " ", "baz">>
StarredB == <<"B", ")", " ", "bar", " ", "*", Marker, "*", " ", "B">>
LowerB == <<"c", ")", " ", "baz", " ", Marker, " ", "b">>
OwnLineB == <<"*", Marker, "*", " ", "B">>

BodyLines == {PlainA, PlainB, PlainC, StarredB, LowerB, OwnLineB}

\* One block: a question line and up to MaxBodyLines lines under it.
OneBlockTexts ==
  {Text(<<q>> \o body) : q \in QuestionLines, body \in SeqsUpTo(BodyLines, MaxBodyLines)}

SampleBlocks ==
  { << <<"1", ".", " ", "What">>, PlainA, PlainB, PlainC >>,
    << <<"2", ".", " ", "What", " ", Url>>, PlainA, <<" ">>, StarredB, PlainC, PlainA, PlainB >>,
    << <<"1", ".", " ", "What">>, PlainA, PlainB >>,
    << <<"3", ".", " ", Url>>, PlainA, PlainB, PlainC >>,
    << <<"1", ".", " ", "What">>, PlainA, PlainB, PlainC, <<Marker, " ", "C">> >> }

Preambles == { <<>>, << <<"intro">> >>, << <<"intro">>, <<Header>> >>, << <<Header>> >> }

\* Several blocks, with or without a section header before or between them.
ManyBlockTexts ==
  {Text(pre \o b1 \o mid \o b2) :
     pre \in Preambles, b1 \in SampleBlocks, mid \in {<<>>, << <<Header>> >>},
     b2 \in SampleBlocks}

ParserTexts ==
  OneBlockTexts \cup ManyBlockTexts
    \cup {Undef, Num(0), Num(1), EmptyText, Text(<< <<"intro">> >>)}

InitParser ==
  /\ now = 0
  /\ answerStore = EmptyStore
  /\ pending = 0
  /\ req = NoRequest
  /\ res = NoResponse
  /\ norm = NormIdle
  /\ parser \in {[text |-> text, out |-> <<>>, done |-> FALSE] : text \in ParserTexts}
  /\ pdf = PdfIdle
  /\ cmp = CmpIdle
  /\ app = AppIdle

Parse ==
  /\ ~parser.done
  /\ parser' = [parser EXCEPT !.out = parseQuestionsFromText(parser.text),
                              !.done = TRUE]
  /\ UNCHANGED <<now, answerStore, pending, req, res, norm, pdf, cmp, app>>

NextParser == Parse

SpecParser == InitParser /\ [][NextParser]_vars

(***************************************************************************)
(* The PDF service (src/pdf/server.js, port 3333) and the /read-pdf proxy  *)
(* of the server.  A fetched body is the sequence of its bytes, written as *)
(* characters; a URL is a one-symbol string.                               *)
(***************************************************************************)
TextLimit == 3000

RawUrl == "https://raw.githubusercontent.com/o/r/main/a.pdf"

BlobUrl == "https://github.com/o/r/blob/main/a.pdf"

RepoUrl == "https://github.com/o/r"

\* The values a caller puts in github_url.
GithubUrls == {Undef, Num(1), Str(<<>>), Str(<<RawUrl>>), Str(<<BlobUrl>>), Str(<<RepoUrl>>)}

\* What the remote host does with the fetch of line 22, and the bytes it sends.
PdfBodies ==
  { <<>>,
    <<"%", "P", "D">>,
    <<"%", "P", "D", "F">>,
    <<"%", "P", "D", "F", "-", "1">>,
    <<"x", "%", "P", "D", "F">>,
    <<"%", "p", "d", "f">>,
    <<"<", "h", "t", "m", "l", ">">> }

Fetches ==
  {[outcome |-> "throws", body |-> <<>>]}
    \cup {[outcome |-> o, body |-> b] : o \in {"ok", "notOk"}, b \in PdfBodies}

\* What pdf-parse does with a buffer it is given: it raises, or yields a text.
ParseOutcomes ==
  { [kind |-> "throws", text |-> <<>>],
    [kind |-> "text", text |-> <<>>],
    [kind |-> "text", text |-> <<"a", "b", "c">>] }

Returned(value) == [ok |-> TRUE, value |-> value, error |-> ""]

Thrown(message) == [ok |-> FALSE, value |-> <<>>, error |-> message]

\* Lines 8-16.  url.includes of a value that is no string is a TypeError; the
\* pattern of line 11 matches BlobUrl and neither RepoUrl nor "".
githubToRaw(url) ==
  IF url.t # "string" THEN Thrown("TypeError")
  ELSE IF url.s = <<RawUrl>> THEN Returned(url.s)
  ELSE IF url.s = <<BlobUrl>> THEN Returned(<<RawUrl>>)
  ELSE Thrown("Invalid GitHub URL")

\* buffer.slice(0, n)
slice(buffer, n) == SubSeq(buffer, 1, IF Len(buffer) < n THEN Len(buffer) ELSE n)

\* haystack.includes(needle)
includes(haystack, needle) ==
  \E i \in 0..(Len(haystack) - Len(needle)) :
    SubSeq(haystack, i + 1, i + Len(needle)) = needle

\* text.substring(0, n)
substring(text, n) == slice(text, n)

\* A mutant of fetchPDF: the marker is looked for anywhere in the body.
fetchPDFAnywhere(githubUrl, fetched) ==
  LET rawUrl == githubToRaw(githubUrl)
  IN  IF ~rawUrl.ok THEN rawUrl
      ELSE IF fetched.outcome = "throws" THEN Thrown("FetchError")
      ELSE IF fetched.outcome = "notOk" THEN Thrown("Failed to fetch PDF")
      ELSE IF ~includes(fetched.body, <<"%", "P", "D", "F">>)
             THEN Thrown("Not a valid PDF file")
      ELSE Returned(fetched.body)

\* Lines 18-33.
fetchPDF(githubUrl, fetched) ==
  LET rawUrl == githubToRaw(githubUrl)
  IN  IF ~rawUrl.ok THEN rawUrl
      ELSE IF fetched.outcome = "throws" THEN Thrown("FetchError")
      ELSE IF fetched.outcome = "notOk" THEN Thrown("Failed to fetch PDF")
      ELSE IF ~includes(slice(fetched.body, 4), <<"%", "P", "D", "F">>)
             THEN Thrown("Not a valid PDF file")
      ELSE Returned(fetched.body)

\* A JSON-RPC request body as the service receives it.
Rpc(kind, method, name, github_url) ==
  [kind |-> kind, method |-> method, name |-> name, github_url |-> github_url]

\* Lines 29-34 of the proxy.
rpcBody(github_url) == Rpc("json", "tools/call", "read_github_pdf", github_url)

RpcRequests ==
  { Rpc("notJson", "", "", Undef),
    Rpc("json", "tools/list", "", Undef),
    Rpc("json", "tools/call", "read_file", Undef) }
    \cup {rpcBody(u) : u \in GithubUrls}

RpcReply(status, text, error) == [status |-> status, text |-> text, error |-> error]

\* What one request does to the service: the buffers handed to pdfParse and the
\* responses written.
Served(parsed, replies) == [parsed |-> parsed, replies |-> replies]

\* Lines 35-71: the request handler of the service.
ServeRpc(rpc, fetched, parse) ==
  IF rpc.kind = "notJson"
    THEN Served(<<>>, <<RpcReply(500, Undef, "SyntaxError")>>)
  ELSE IF rpc.method = "tools/call" /\ rpc.name = "read_github_pdf"
    THEN LET buffer == fetchPDF(rpc.github_url, fetched)
         IN  IF ~buffer.ok
               THEN Served(<<>>, <<RpcReply(500, Undef, buffer.error)>>)
             ELSE IF parse.kind = "throws"
               THEN Served(<<buffer.value>>, <<RpcReply(500, Undef, "ParseError")>>)
             ELSE Served(<<buffer.value>>,
                         <<RpcReply(200, Str(substring(parse.text, TextLimit)), "")>>)
  ELSE Served(<<>>, <<RpcReply(500, Undef, "Unknown MCP method")>>)

NoReply == RpcReply(0, Undef, "")

\* Lines 24-56 of the server: the /read-pdf proxy, with the request it makes to
\* the service (up: the service accepts the connection).
ReadPdfResponse(github_url, up, served) ==
  IF ~Truthy(github_url) THEN RpcReply(400, Undef, "github_url required")
  ELSE IF ~up THEN RpcReply(500, Undef, "PDF extraction failed")
  ELSE LET response == served.replies[1]
       IN  IF response.status \notin 200..299
             THEN RpcReply(500, Undef, "PDF service failed")
           ELSE IF ~Truthy(response.text)
             THEN RpcReply(500, Undef, "No text extracted")
           ELSE RpcReply(200, response.text, "")

PdfInputs ==
  {[phase |-> "new", via |-> "service", rpc |-> rpc, up |-> TRUE, fetched |-> f,
    parse |-> p, parsed |-> <<>>, replies |-> <<>>, proxy |-> NoReply] :
      rpc \in RpcRequests, f \in Fetches, p \in ParseOutcomes}
    \cup
  {[phase |-> "new", via |-> "proxy", rpc |-> rpcBody(u), up |-> up, fetched |-> f,
    parse |-> p, parsed |-> <<>>, replies |-> <<>>, proxy |-> NoReply] :
      u \in GithubUrls, up \in BOOLEAN, f \in Fetches, p \in ParseOutcomes}

InitPdf ==
  /\ now = 0
  /\ answerStore = EmptyStore
  /\ pending = 0
  /\ req = NoRequest
  /\ res = NoResponse
  /\ norm = NormIdle
  /\ parser = ParserIdle
  /\ pdf \in PdfInputs
  /\ cmp = CmpIdle
  /\ app = AppIdle

\* A client posts to the service itself.
ServePdf ==
  /\ pdf.phase = "new"
  /\ pdf.via = "service"
  /\ LET served == ServeRpc(pdf.rpc, pdf.fetched, pdf.parse)
     IN  pdf' = [pdf EXCEPT !.phase = "answered",
                            !.parsed = served.parsed,
                            !.replies = served.replies]
  /\ UNCHANGED <<now, answerStore, pending, req, res, norm, parser, cmp, app>>

\* A client posts to /read-pdf, which asks the service when it has a github_url
\* and the service is up.
ReadPdf ==
  /\ pdf.phase = "new"
  /\ pdf.via = "proxy"
  /\ LET github_url == pdf.rpc.github_url
         asked == Truthy(github_url) /\ pdf.up
         served == IF asked THEN ServeRpc(rpcBody(github_url), pdf.fetched, pdf.parse)
                            ELSE Served(<<>>, <<>>)
     IN  pdf' = [pdf EXCEPT !.phase = "answered",
                            !.parsed = served.parsed,
                            !.replies = served.replies,
                            !.proxy = ReadPdfResponse(github_url, pdf.up, served)]
  /\ UNCHANGED <<now, answerStore, pending, req, res, norm, parser, cmp, app>>

NextPdf ==
  \/ ServePdf
  \/ ReadPdf

SpecPdf == InitPdf /\ [][NextPdf]_vars

(***************************************************************************)
(* The scoring of one answered quiz by each part of the system that scores: *)
(* POST /evaluate-quiz with the stored key, the fallback of the client, the *)
(* score check of the earlier client, and the level test of the client     *)
(* through POST /evaluate-level.                                           *)
(***************************************************************************)
\* Lines 675-679 of the client: one entry of parsedQuestions.
parsedQuestion(q) == [q EXCEPT !.answer = Or(q.answer, At(q.options, 0))]

\* correct?.trim()
OptionalTrim(v) == IF v.t = "undefined" THEN Undef ELSE Str(trim(v.s))

\* Lines 725-743 of the client: one entry of normalized.
normalized(q) ==
  LET correct == q.answer
      lettered == IF correct.t = "string" /\ IsLetterAD(correct.s)
                    THEN At(q.options, LetterIndex(correct.s))
                    ELSE correct
      indexed == IF lettered.t = "number" THEN At(q.options, lettered.n) ELSE lettered
  IN  [q EXCEPT !.answer = OptionalTrim(indexed)]

\* The questions state of the client for a response body of POST /generate.
clientQuestions(data) == [i \in 1..Len(data) |-> normalized(parsedQuestion(data[i]))]

\* (v || "").toString().trim().toLowerCase()
TrimmedLower(v) == toLowerCase(trim(Or(v, Str(<<>>)).s))

\* Lines 816, 823 and 833 of the client: clientCorrect.
clientCorrect(questions, answers) ==
  Cardinality({i \in 1..Len(questions) :
                 TrimmedLower(questions[i].answer) = TrimmedLower(At2(answers, i))})

\* Lines 817, 824 and 834 of the client: percent.
percent(correct, total) ==
  IF total > 0 THEN (200 * correct + total) \div (2 * total) ELSE 0

\* Lines 147-161 of the earlier client: the score after the last question, with
\* selected === questions[index].answer on the questions as /generate sent them.
oldClientScore(questions, answers) ==
  Cardinality({i \in 1..Len(questions) : answers[i] = questions[i].answer})

Tally(keys, correct, score) == [keys |-> keys, correct |-> correct, score |-> score]

NoTally == Tally(<<>>, 0, 0)

Answers(questions) == [i \in 1..Len(questions) |-> questions[i].answer]

\* The quizzes of the comparison: one question of any answer format, or a list
\* the generator model returns, each question with options to choose from.
ScoredQuizzes ==
  {<<q>> : q \in {n \in NormalizeInputs : n.options # <<>>}}
    \cup {r.questions : r \in {p \in ProviderResults :
            /\ p.kind = "array"
            /\ p.questions # <<>>
            /\ \A i \in 1..Len(p.questions) : p.questions[i].options # <<>>}}

\* The options a user ticks, one per question.
Selections(questions) ==
  {s \in [1..Len(questions) -> UNION {{Str(o) : o \in OptionTexts}}] :
     \A i \in 1..Len(questions) :
       \E k \in 1..Len(questions[i].options) : s[i] = Str(questions[i].options[k])}

ScoringInputs ==
  {[phase |-> "new", questions |-> qs, selected |-> s, response |-> NoResponse,
    server |-> NoTally, client |-> NoTally, old |-> NoTally, level |-> NoTally] :
      qs \in ScoredQuizzes, s \in UNION {Selections(x) : x \in ScoredQuizzes}}

InitScoring ==
  /\ now = 0
  /\ answerStore = EmptyStore
  /\ pending = 0
  /\ req = NoRequest
  /\ res = NoResponse
  /\ norm = NormIdle
  /\ parser = ParserIdle
  /\ pdf = PdfIdle
  /\ cmp \in {c \in ScoringInputs : c.selected \in Selections(c.questions)}
  /\ app = AppIdle

\* POST /generate stores the quiz and POST /evaluate-quiz scores the selection.
ScoreOnServer ==
  /\ cmp.phase = "new"
  /\ LET entry == [questions |-> cmp.questions,
                   answers |-> normalizedAnswers(cmp.questions)]
         response == EvaluateResponse(StoreSet(EmptyStore, 0, entry), 0,
                                      Arr(cmp.selected))
     IN  cmp' = [cmp EXCEPT !.phase = "server",
                            !.response = response,
                            !.server = Tally(entry.answers, response.correct,
                                             response.score)]
  /\ UNCHANGED <<now, answerStore, pending, req, res, norm, parser, pdf, app>>

\* The fallback of evaluateAndShow scores the same selection on the client.
ScoreOnClient ==
  /\ cmp.phase = "server"
  /\ LET questions == clientQuestions(cmp.questions)
         correct == clientCorrect(questions, cmp.selected)
     IN  cmp' = [cmp EXCEPT !.phase = "both",
                            !.client = Tally(Answers(questions), correct,
                                             percent(correct, Len(questions)))]
  /\ UNCHANGED <<now, answerStore, pending, req, res, norm, parser, pdf, app>>

\* nextQuestion of the earlier client, up to the result screen.
ScoreOnOldClient ==
  /\ cmp.phase = "new"
  /\ cmp' = [cmp EXCEPT !.phase = "old",
                        !.old = Tally(Answers(cmp.questions),
                                      oldClientScore(cmp.questions, cmp.selected), 0)]
  /\ UNCHANGED <<now, answerStore, pending, req, res, norm, parser, pdf, app>>

\* evaluateAndShowLevel of the client with the questions as /generate-level-test
\* sent them, and POST /evaluate-level.
ScoreLevel ==
  /\ cmp.phase = "new"
  /\ LET correctAnswers == Answers(cmp.questions)
         response == EvaluateLevelResponse(Arr(cmp.selected), Arr(correctAnswers))
     IN  cmp' = [cmp EXCEPT !.phase = "level",
                            !.response = response,
                            !.level = Tally(correctAnswers, response.correct,
                                            response.percentage)]
  /\ UNCHANGED <<now, answerStore, pending, req, res, norm, parser, pdf, app>>

NextScoring ==
  \/ ScoreOnServer
  \/ ScoreOnClient
  \/ ScoreOnOldClient
  \/ ScoreLevel

SpecScoring == InitScoring /\ [][NextScoring]_vars

(***************************************************************************)
(* The browser client (App component).  A click runs its handler up to the *)
(* first await; the rest of the handler runs when the response arrives,    *)
(* with the values the handler captured at the click.  Requests are        *)
(* answered in any order.  The handlers of the level test and of the       *)
(* personalized quiz have no call site that the rendered screens reach     *)
(* (generateLevelTest and generatePersonalizedQuiz are bound to no         *)
(* control), so their state keeps its initial value.                       *)
(***************************************************************************)
GithubLinks == {<<>>, <<"u">>}

TopicTexts == {<<>>, <<"t">>}

\* What the generator returns for the document of the client.
ClientQuiz == <<Question(Str(<<"b">>), OptsXY), Question(Num(0), << <<"x">> >>)>>

ClientProviderResults ==
  {[kind |-> "array", questions |-> ClientQuiz],
   [kind |-> "array", questions |-> <<>>],
   [kind |-> "throws", questions |-> <<>>]}

\* The five learning preference questions, one option each.
LearningQuestions == [i \in 1..5 |-> [question |-> "L", options |-> << <<"o">> >>]]

\* A request in flight, with what its handler captured.
Call(op, quizId, answers, questions, topic) ==
  [op |-> op, quizId |-> quizId, answers |-> answers, questions |-> questions,
   topic |-> topic]

Remove(calls, i) == SubSeq(calls, 1, i - 1) \o SubSeq(calls, i + 1, Len(calls))

\* The cards that are rendered.
ExtractionCard == ~app.isExtracted

PreviewCard == app.isExtracted /\ app.questions = <<>> /\ ~app.showTopicInput

QuizCard == app.questions # <<>> /\ ~app.showResult

ResultCard == app.showResult /\ ~app.showTopicInput

TopicCard == app.showTopicInput

LearningCard == app.showLearningQuestions /\ app.learningQuestions # <<>>

ContentCard == app.showPersonalizedContent /\ app.personalizedContent # <<>>

ServerUnchanged == UNCHANGED <<now, answerStore, pending, req, res, norm, parser, pdf, cmp>>

\* The link field of the extraction card.
SetGithubLink ==
  /\ ExtractionCard
  /\ \E link \in GithubLinks : app' = [app EXCEPT !.githubLink = link]
  /\ ServerUnchanged

\* Lines 172-188: extractDocument up to the fetch.
ExtractDocument ==
  /\ ExtractionCard
  /\ ~app.loading
  /\ Len(app.inflight) < MaxInFlight
  /\ IF trim(app.githubLink) = <<>>
       THEN app' = [app EXCEPT !.loading = FALSE,
                               !.error = "Please paste a GitHub PDF link",
                               !.successMessage = ""]
       ELSE app' = [app EXCEPT !.loading = TRUE,
                               !.error = "",
                               !.successMessage = "",
                               !.inflight = Append(@, Call("extractDocument", <<>>, <<>>,
                                                           <<>>, <<>>))]
  /\ ServerUnchanged

\* The answers of POST /read-pdf to the client: a text longer than the 100
\* characters POST /generate asks for, or an error.
ReadPdfReplies ==
  {RpcReply(200, Str(<<"long">>), ""), RpcReply(500, Undef, "PDF service failed")}

\* Lines 190-217: extractDocument after the fetch; the fetch may raise.
ExtractDocumentDone ==
  \E i \in 1..Len(app.inflight) :
    /\ app.inflight[i].op = "extractDocument"
    /\ \/ \E data \in ReadPdfReplies :
            IF ~Truthy(data.text)
              THEN app' = [app EXCEPT !.error = "Failed to extract PDF",
                                      !.loading = FALSE,
                                      !.inflight = Remove(@, i)]
              ELSE app' = [app EXCEPT !.extractedContent = data.text.s[1],
                                      !.isExtracted = TRUE,
                                      !.successMessage = "PDF extracted",
                                      !.loading = FALSE,
                                      !.inflight = Remove(@, i)]
       \/ app' = [app EXCEPT !.error = "Document extraction failed",
                             !.loading = FALSE,
                             !.inflight = Remove(@, i)]
    /\ ServerUnchanged

\* Lines 959-965: Back on the preview card.
PreviewBack ==
  /\ PreviewCard
  /\ app' = [app EXCEPT !.githubLink = <<>>,
                        !.extractedContent = "absent",
                        !.isExtracted = FALSE,
                        !.error = ""]
  /\ ServerUnchanged

\* Lines 608-644: generateQuiz(true) up to the fetch.
GenerateQuiz ==
  /\ PreviewCard
  /\ ~app.loading
  /\ Len(app.inflight) < MaxInFlight
  /\ IF app.extractedContent # "absent" \/ trim(app.topic) # <<>>
       THEN app' = [app EXCEPT
                      !.loading = TRUE,
                      !.error = "",
                      !.successMessage = "",
                      !.inflight =
                         Append(@, Call("generateQuiz", <<>>, <<>>, <<>>,
                                        IF app.extractedContent # "absent"
                                          THEN <<app.extractedContent>>
                                          ELSE <<"absent", app.topic>>))]
       ELSE app' = [app EXCEPT !.loading = FALSE,
                               !.error = "Please extract a PDF first or enter a topic",
                               !.successMessage = ""]
  /\ ServerUnchanged

\* POST /generate for the payload of the client and a result of the generator.
ServedGenerate(payload, result) ==
  LET docText == payload[1]
      topic == IF Len(payload) > 1 THEN Str(payload[2]) ELSE Undef
  IN  IF ~HasText(docText, topic) THEN ErrorResponse(400, "docText or topic required")
      ELSE IF result.kind = "array"
        THEN Response(200, "", {now}, GenerateBody(result.questions), FALSE, 0, 0, 0)
      ELSE ErrorResponse(500, "Question generation failed")

\* Lines 646-767: generateQuiz after the fetch for a response of POST /generate.
GenerateQuizReceived(response) ==
  LET withId == IF response.header # {}
                  THEN [app EXCEPT !.quizId = <<CHOOSE id \in response.header : TRUE>>]
                  ELSE app
      parsedQuestions == [i \in 1..Len(response.questions) |->
                            parsedQuestion(response.questions[i])]
  IN  IF response.status \notin 200..299
        THEN [withId EXCEPT !.error = "Server error", !.loading = FALSE]
      ELSE IF Len(parsedQuestions) > 0
        THEN [withId EXCEPT
                !.questions = [i \in 1..Len(parsedQuestions) |->
                                 normalized(parsedQuestions[i])],
                !.index = 0,
                !.score = 0,
                !.userAnswers = <<>>,
                !.correctCount = <<>>,
                !.selected = Str(<<>>),
                !.showResult = FALSE,
                !.showTopicInput = FALSE,
                !.successMessage = "Questions generated successfully!",
                !.loading = FALSE]
      ELSE [withId EXCEPT !.error = "Could not parse questions. Please try again.",
                          !.loading = FALSE]

\* The server answers POST /generate and the client takes the response, or the
\* fetch raises.
GenerateQuizDone ==
  \E i \in 1..Len(app.inflight) :
    /\ app.inflight[i].op = "generateQuiz"
    /\ \/ \E result \in ClientProviderResults :
            LET response == ServedGenerate(app.inflight[i].topic, result)
            IN  app' = [GenerateQuizReceived(response) EXCEPT
                          !.inflight = Remove(@, i)]
       \/ app' = [app EXCEPT !.error = "Error",
                             !.loading = FALSE,
                             !.inflight = Remove(@, i)]
    /\ ServerUnchanged

\* Line 1003: a radio button of the quiz card.
SelectOption ==
  /\ QuizCard
  /\ app.index < Len(app.questions)
  /\ \E k \in 1..Len(app.questions[app.index + 1].options) :
       app' = [app EXCEPT !.selected = Str(app.questions[app.index + 1].options[k])]
  /\ ServerUnchanged

\* Lines 774-842: nextQuestion.  After the last question it starts
\* evaluateAndShow, which posts to /evaluate-quiz when there is a quizId and
\* scores on the client when there is none.
nextQuestion ==
  /\ QuizCard
  /\ Truthy(app.selected)
  /\ Len(app.userAnswers) < Len(app.questions) + MaxExtraAnswers
  /\ LET nextUserAnswers == Append(app.userAnswers, app.selected)
         recorded == [app EXCEPT !.userAnswers = nextUserAnswers,
                                 !.selected = Str(<<>>)]
         correct == clientCorrect(app.questions, nextUserAnswers)
     IN  IF app.index + 1 < Len(app.questions)
           THEN app' = [recorded EXCEPT !.index = app.index + 1]
         ELSE IF app.quizId # <<>>
           THEN /\ Len(app.inflight) < MaxEvaluations
                /\ app' = [recorded EXCEPT
                             !.successMessage = "Quiz completed successfully!",
                             !.inflight = Append(@, Call("evaluateAndShow", app.quizId,
                                                         nextUserAnswers, app.questions,
                                                         <<>>))]
         ELSE app' = [recorded EXCEPT
                        !.successMessage = "Quiz completed successfully!",
                        !.score = percent(correct, Len(app.questions)),
                        !.correctCount = <<correct>>,
                        !.showResult = TRUE]
  /\ ServerUnchanged

\* Number(value) || 0
NumberOrZero(value) == IF value = NaN THEN 0 ELSE value

\* Lines 798-820: evaluateAndShow for a response of POST /evaluate-quiz.
Evaluated(call, result) ==
  LET total == Len(call.questions)
      clientCount == clientCorrect(call.questions, call.answers)
  IN  IF result.status \in 200..299
        THEN IF result.success
               THEN [app EXCEPT !.score = NumberOrZero(result.score),
                                !.correctCount = <<NumberOrZero(result.correct)>>,
                                !.showResult = TRUE]
               ELSE [app EXCEPT !.score = percent(result.correct, total),
                                !.correctCount = <<result.correct>>,
                                !.showResult = TRUE]
        ELSE [app EXCEPT !.score = percent(clientCount, total),
                         !.correctCount = <<clientCount>>,
                         !.showResult = TRUE]

\* Lines 831-837: the catch block of evaluateAndShow.
EvaluationFailed(call) ==
  LET clientCount == clientCorrect(call.questions, call.answers)
  IN  [app EXCEPT !.score = percent(clientCount, Len(call.questions)),
                  !.showResult = TRUE]

\* What the server holds when the evaluation arrives: the quiz as POST /generate
\* stored it under quizId, or nothing once the server process has started again.
ServerStores(quizId) ==
  {EmptyStore,
   StoreSet(EmptyStore, quizId,
            [questions |-> ClientQuiz, answers |-> normalizedAnswers(ClientQuiz)])}

\* The server answers POST /evaluate-quiz and the client takes the response, or
\* the fetch raises.
EvaluateAndShowDone ==
  \E i \in 1..Len(app.inflight) :
    LET call == app.inflight[i]
    IN  /\ call.op = "evaluateAndShow"
        /\ \/ \E store \in ServerStores(call.quizId[1]) :
                app' = [Evaluated(call, EvaluateResponse(store, call.quizId[1],
                                                         Arr(call.answers)))
                          EXCEPT !.inflight = Remove(@, i)]
           \/ app' = [EvaluationFailed(call) EXCEPT !.inflight = Remove(@, i)]
        /\ ServerUnchanged

\* Line 1043: "Assess Your Knowledge Level" on the result card.
ShowTopicInput ==
  /\ ResultCard
  /\ ~app.showTopicInput
  /\ app' = [app EXCEPT !.showTopicInput = TRUE]
  /\ ServerUnchanged

\* A mutant of NewSession: the reset of lines 1498-1524, which leaves the topic
\* card, the learning questions and the personalized content as they are.
NewSessionPartial ==
  /\ ResultCard
  /\ app' = [app EXCEPT
               !.questions = <<>>, !.index = 0, !.score = 0,
               !.selected = Str(<<>>), !.quizId = <<>>, !.userAnswers = <<>>,
               !.correctCount = <<>>, !.showResult = FALSE, !.topic = <<>>,
               !.extractedContent = "absent", !.isExtracted = FALSE,
               !.githubLink = <<>>, !.error = "", !.successMessage = "",
               !.generatedTopics = <<>>, !.detectedLevel = <<>>,
               !.levelTestQuestions = <<>>, !.levelTestIndex = 0,
               !.levelTestSelected = Str(<<>>), !.levelTestAnswers = <<>>,
               !.showLevelTest = FALSE, !.levelTestScore = 0,
               !.showLevelResult = FALSE]
  /\ ServerUnchanged

\* Lines 1057-1098: "New Session" on the result card.
NewSession ==
  /\ ResultCard
  /\ app' = [app EXCEPT
               !.questions = <<>>, !.index = 0, !.score = 0,
               !.selected = Str(<<>>), !.quizId = <<>>, !.userAnswers = <<>>,
               !.correctCount = <<>>, !.showResult = FALSE, !.topic = <<>>,
               !.showTopicInput = FALSE, !.learningQuestions = <<>>,
               !.learningIndex = 0, !.learningSelected = Str(<<>>),
               !.learningAnswers = <<>>, !.showLearningQuestions = FALSE,
               !.learningStyleId = <<>>, !.showPersonalizedContent = FALSE,
               !.personalizedContent = <<>>, !.extractedContent = "absent",
               !.isExtracted = FALSE, !.githubLink = <<>>, !.error = "",
               !.successMessage = "", !.levelTestQuestions = <<>>,
               !.levelTestIndex = 0, !.levelTestSelected = Str(<<>>),
               !.levelTestAnswers = <<>>, !.showLevelTest = FALSE,
               !.detectedLevel = <<>>, !.levelTestScore = 0,
               !.showLevelResult = FALSE, !.generatedTopics = <<>>,
               !.personalizedQuestions = <<>>, !.personalIndex = 0,
               !.personalSelected = Str(<<>>), !.showPersonalizedQuiz = FALSE,
               !.personalAnswers = <<>>, !.showGenerateTopicButton = FALSE]
  /\ ServerUnchanged

\* Line 1131: the topic field of the topic card.
SetTopic ==
  /\ TopicCard
  /\ \E text \in TopicTexts : app' = [app EXCEPT !.topic = text]
  /\ ServerUnchanged

\* Lines 1156-1159: Back on the topic card.
TopicBack ==
  /\ TopicCard
  /\ app' = [app EXCEPT !.showTopicInput = FALSE, !.showResult = TRUE]
  /\ ServerUnchanged

\* Lines 452-461: generateLearningQuestions up to the fetch.
generateLearningQuestions ==
  /\ TopicCard
  /\ ~app.loading
  /\ trim(app.topic) # <<>>
  /\ Len(app.inflight) < MaxInFlight
  /\ app' = [app EXCEPT !.loading = TRUE,
                        !.error = "",
                        !.inflight = Append(@, Call("generateLearningQuestions", <<>>,
                                                    <<>>, <<>>, <<>>))]
  /\ ServerUnchanged

\* Lines 463-489: generateLearningQuestions after the fetch.  The server sends
\* the five questions, something else, or an error status, or the fetch raises.
generateLearningQuestionsDone ==
  \E i \in 1..Len(app.inflight) :
    /\ app.inflight[i].op = "generateLearningQuestions"
    /\ \E outcome \in {"five", "other", "status", "throws"} :
         app' = IF outcome = "five"
                  THEN [app EXCEPT !.learningQuestions = LearningQuestions,
                                   !.learningIndex = 0,
                                   !.learningSelected = Str(<<>>),
                                   !.learningAnswers = <<>>,
                                   !.showLearningQuestions = TRUE,
                                   !.showTopicInput = FALSE,
                                   !.successMessage = "",
                                   !.loading = FALSE,
                                   !.inflight = Remove(@, i)]
                ELSE IF outcome = "other"
                  THEN [app EXCEPT !.error = "Invalid learning questions format from server",
                                   !.loading = FALSE,
                                   !.inflight = Remove(@, i)]
                ELSE [app EXCEPT !.error = "Failed to load learning questions",
                                 !.loading = FALSE,
                                 !.inflight = Remove(@, i)]
    /\ ServerUnchanged

\* Line 1216: a radio button of the learning card.
SelectLearningOption ==
  /\ LearningCard
  /\ app.learningIndex < Len(app.learningQuestions)
  /\ \E k \in 1..Len(app.learningQuestions[app.learningIndex + 1].options) :
       app' = [app EXCEPT !.learningSelected =
                 Str(app.learningQuestions[app.learningIndex + 1].options[k])]
  /\ ServerUnchanged

\* currentQuestion.options.indexOf(selected)
indexOf(options, selected) ==
  IF \E k \in 1..Len(options) : Str(options[k]) = selected
    THEN (CHOOSE k \in 1..Len(options) :
            /\ Str(options[k]) = selected
            /\ \A j \in 1..(k - 1) : Str(options[j]) # selected) - 1
    ELSE -1

\* Lines 496-517 and 525-538: nextLearningQuestion; after the last question it
\* starts evaluateLearningStyle, which runs up to its fetch.
nextLearningQuestion ==
  /\ LearningCard
  /\ Truthy(app.learningSelected)
  /\ Len(app.learningAnswers) < Len(app.learningQuestions) + MaxExtraLearningAnswers
  /\ LET currentQuestion == app.learningQuestions[app.learningIndex + 1]
         optionIndex == indexOf(currentQuestion.options, app.learningSelected)
         nextAnswers == Append(app.learningAnswers, optionIndex)
         recorded == [app EXCEPT !.learningAnswers = nextAnswers,
                                 !.learningSelected = Str(<<>>)]
     IN  IF app.learningIndex + 1 < Len(app.learningQuestions)
           THEN app' = [recorded EXCEPT !.learningIndex = app.learningIndex + 1]
           ELSE /\ Len(app.inflight) < MaxInFlight
                /\ app' = [recorded EXCEPT
                             !.loading = TRUE,
                             !.error = "",
                             !.inflight = Append(@, Call("evaluateLearningStyle", <<>>,
                                                         nextAnswers, <<>>, app.topic))]
  /\ ServerUnchanged

\* Lines 539-560 and 567-577: evaluateLearningStyle after the fetch.  The server
\* answers with success and a styleId, without success, or with an error
\* status, or the fetch raises.  On success generatePersonalizedContent runs up
\* to its fetch.
evaluateLearningStyleDone ==
  \E i \in 1..Len(app.inflight) :
    LET call == app.inflight[i]
    IN  /\ call.op = "evaluateLearningStyle"
        /\ \E outcome \in {"success", "noSuccess", "status", "throws"} :
             app' = IF outcome = "success"
                      THEN [app EXCEPT
                              !.learningStyleId = <<"style">>,
                              !.showLearningQuestions = FALSE,
                              !.inflight = Append(Remove(@, i),
                                                  [call EXCEPT !.op = "generatePersonalizedContent"])]
                    ELSE IF outcome = "noSuccess"
                      THEN [app EXCEPT !.inflight = Remove(@, i)]
                    ELSE [app EXCEPT !.error = "Evaluation failed",
                                     !.loading = FALSE,
                                     !.inflight = Remove(@, i)]
        /\ ServerUnchanged

\* Lines 578-597: generatePersonalizedContent after the fetch, and the return to
\* evaluateLearningStyle.
generatePersonalizedContentDone ==
  \E i \in 1..Len(app.inflight) :
    /\ app.inflight[i].op = "generatePersonalizedContent"
    /\ \E outcome \in {"content", "status", "throws"} :
         app' = IF outcome = "content"
                  THEN [app EXCEPT !.personalizedContent = <<"content">>,
                                   !.showPersonalizedContent = TRUE,
                                   !.successMessage = "Personalized learning path created for you!",
                                   !.loading = FALSE,
                                   !.inflight = Remove(@, i)]
                  ELSE [app EXCEPT !.error = "Content generation failed",
                                   !.loading = FALSE,
                                   !.inflight = Remove(@, i)]
    /\ ServerUnchanged

\* Lines 1314-1320: "Understood" on the content card.
Understood ==
  /\ ContentCard
  /\ app' = [app EXCEPT !.topic = <<>>,
                        !.showPersonalizedContent = FALSE,
                        !.personalizedContent = <<>>,
                        !.showResult = TRUE]
  /\ ServerUnchanged

\* Lines 1335-1339: Back on the content card.
ContentBack ==
  /\ ContentCard
  /\ app' = [app EXCEPT !.showPersonalizedContent = FALSE,
                        !.personalizedContent = <<>>,
                        !.showResult = TRUE]
  /\ ServerUnchanged

\* setTimeout(() => setSuccessMessage(""), 3000) fires.
MessageTimeout ==
  /\ app.successMessage # ""
  /\ app' = [app EXCEPT !.successMessage = ""]
  /\ ServerUnchanged

InitClient ==
  /\ now = 0
  /\ answerStore = EmptyStore
  /\ pending = 0
  /\ req = NoRequest
  /\ res = NoResponse
  /\ norm = NormIdle
  /\ parser = ParserIdle
  /\ pdf = PdfIdle
  /\ cmp = CmpIdle
  /\ app = AppIdle

NextClient ==
  \/ SetGithubLink
  \/ ExtractDocument
  \/ ExtractDocumentDone
  \/ PreviewBack
  \/ GenerateQuiz
  \/ GenerateQuizDone
  \/ SelectOption
  \/ nextQuestion
  \/ EvaluateAndShowDone
  \/ ShowTopicInput
  \/ NewSession
  \/ SetTopic
  \/ TopicBack
  \/ generateLearningQuestions
  \/ generateLearningQuestionsDone
  \/ SelectLearningOption
  \/ nextLearningQuestion
  \/ evaluateLearningStyleDone
  \/ generatePersonalizedContentDone
  \/ Understood
  \/ ContentBack
  \/ MessageTimeout

SpecClient == InitClient /\ [][NextClient]_vars

\* Every fetch settles: the response arrives or the fetch raises.
FairClient ==
  /\ SpecClient
  /\ WF_vars(ExtractDocumentDone)
  /\ WF_vars(GenerateQuizDone)
  /\ WF_vars(EvaluateAndShowDone)
  /\ WF_vars(generateLearningQuestionsDone)
  /\ WF_vars(evaluateLearningStyleDone)
  /\ WF_vars(generatePersonalizedContentDone)

(***************************************************************************)
(* Properties of POST /evaluate-quiz and POST /generate.                   *)
(***************************************************************************)
\* The last request handled was a POST /evaluate-quiz answered with a score.
Scored == req.route = "evaluate-quiz" /\ res.status = 200

\* The stored quiz the last POST /evaluate-quiz was about.
ScoredQuiz == answerStore[req.quizId]

\* The submitted entry for question i of the last POST /evaluate-quiz.
Submitted(i) == At2(req.answers.items, i)

C2_FreshIdWriteOnce ==
  [][/\ \A id \in DOMAIN answerStore :
          id \in DOMAIN answerStore' /\ answerStore'[id] = answerStore[id]
     /\ (req'.route = "generate" /\ res'.status = 200 /\ pending' # pending)
          => res'.header \cap DOMAIN answerStore = {}]_vars

\* Equality after lower-casing and trimming both sides, an absent entry read as "".
TrimmedEqual(ans, sub) ==
  trim(toLowerCase(Or(ans, Str(<<>>)).s)) = trim(toLowerCase(Or(sub, Str(<<>>)).s))

\* C3: for a known quizId, question i counts as correct exactly when the
\* submitted entry i equals the stored answer i after lower-casing and trimming
\* surrounding whitespace on both sides, position by position.
C3_TrimmedPositionalMatch ==
  Scored =>
    res.correct =
      Cardinality({i \in 1..Len(ScoredQuiz.answers) :
                     TrimmedEqual(ScoredQuiz.answers[i], Submitted(i))})

\* C4: a missing, null or empty submitted entry at index i never counts as
\* correct, whatever the stored answer for question i is.
C4_MissingNeverMatches ==
  Scored =>
    res.correct =
      Cardinality({i \in 1..Len(ScoredQuiz.answers) :
                     Truthy(Submitted(i)) /\ Matches(ScoredQuiz.answers[i], Submitted(i))})

\* round(100 * correct / total) for total > 0.
RoundedPercent(correct, total) == (200 * correct + total) \div (2 * total)

\* C5: for every stored quiz and submission the result has total (correct + wrong)
\* equal to the stored question count, 0 <= correct <= total, and a score that is
\* the integer round(100 * correct / total) in 0..100, and 0 for a quiz without
\* questions.
C5_ScoreIsRoundedPercentage ==
  Scored =>
    LET total == Len(ScoredQuiz.questions)
    IN  /\ res.correct + res.wrong = total
        /\ res.correct \in 0..total
        /\ res.score \in 0..100
        /\ res.score = IF total = 0 THEN 0 ELSE RoundedPercent(res.correct, total)

\* Two question lists that show the same to the user: same length, and the same
\* question text and options at every position.
SameDisplay(qs1, qs2) ==
  /\ Len(qs1) = Len(qs2)
  /\ \A i \in 1..Len(qs1) :
       qs1[i].question = qs2[i].question /\ qs1[i].options = qs2[i].options

\* C6: the body POST /generate answers with does not tell which option is
\* correct: a quiz that differs from the generated one only in which option is
\* correct would have been answered with the same body.
C6_BodyHidesAnswerKey ==
  (req.route = "generate" /\ res.status = 200) =>
    \A other \in SeqsUpTo(QuestionPool, MaxQuestions) :
      (/\ SameDisplay(other, res.questions)
       /\ normalizedAnswers(other) # normalizedAnswers(res.questions))
        => GenerateBody(other) = res.questions

\* A single letter A-D of either case.
IsLetter(chars) ==
  Len(chars) = 1 /\ chars[1] \in {"A", "a", "B", "b", "C", "c", "D", "d"}

\* The position a letter stands for: A=0, B=1, C=2, D=3.
LetterPosition(chars) ==
  IF chars[1] \in {"A", "a"} THEN 0
  ELSE IF chars[1] \in {"B", "b"} THEN 1
  ELSE IF chars[1] \in {"C", "c"} THEN 2
  ELSE 3

\* A structured question: options are there, and the answer is a letter whose
\* option exists, an index whose option exists, or the text of an option.
Structured(q) ==
  /\ Len(q.options) > 0
  /\ \/ /\ q.answer.t = "string" /\ IsLetter(q.answer.s)
        /\ LetterPosition(q.answer.s) < Len(q.options)
     \/ /\ q.answer.t = "number"
        /\ q.answer.n \in 0..(Len(q.options) - 1)
     \/ /\ q.answer.t = "string" /\ ~IsLetter(q.answer.s)
        /\ \E k \in 1..Len(q.options) : q.options[k] = q.answer.s

\* The text of the option the answer of a structured question designates.
Designated(q) ==
  IF q.answer.t = "number" THEN Str(q.options[q.answer.n + 1])
  ELSE IF IsLetter(q.answer.s) THEN Str(q.options[LetterPosition(q.answer.s) + 1])
  ELSE q.answer

\* A quiz of N >= 1 structured questions.
StructuredQuiz(questions) ==
  /\ Len(questions) >= 1
  /\ \A i \in 1..Len(questions) : Structured(questions[i])

\* The submission with, for each question, the text of its designated option.
DesignatedAnswers(questions) ==
  [isArray |-> TRUE,
   items |-> [i \in 1..Len(questions) |-> Designated(questions[i])]]

\* Is the response to the submission of the designated options of questions,
\* under quizId, correct = N, wrong = 0, score = 100?
ScoresHundred(store, quizId, questions) ==
  LET r == EvaluateResponse(store, quizId, DesignatedAnswers(questions))
  IN  /\ r.status = 200
      /\ r.correct = Len(questions)
      /\ r.wrong = 0
      /\ r.score = 100

\* C7: once POST /generate has stored a quiz of N >= 1 structured questions under
\* a quizId, submitting the designated option of every question under that quizId
\* is answered with correct = N and score = 100, right after the creation and
\* after every later step of the server.
C7_AllCorrectScoresHundred ==
  [][/\ \A id \in DOMAIN answerStore' :
          StructuredQuiz(answerStore'[id].questions)
            => ScoresHundred(answerStore', id, answerStore'[id].questions)
     /\ \A id \in DOMAIN answerStore :
          StructuredQuiz(answerStore[id].questions)
            => ScoresHundred(answerStore', id, answerStore[id].questions)]_vars

(***************************************************************************)
(* Properties of the answer normalizer.                                    *)
(***************************************************************************)
IsOption(v, opts) == \E k \in 1..Len(opts) : v = Str(opts[k])

\* A raw answer that is a letter A-D, a non-negative integer, or option text.
ValidRaw(ans, opts) ==
  \/ ans.t = "string" /\ IsLetter(ans.s)
  \/ ans.t = "number" /\ ans.n >= 0
  \/ ans.t = "string" /\ IsOption(ans, opts)

\* C8: for a non-empty options list and a raw answer that is a letter A-D, a
\* non-negative index or the text of an option, the normalized answer is an
\* element of options.
C8_NormalizedIsAnOption ==
  (/\ norm.steps >= 1
   /\ Len(norm.q.options) > 0
   /\ ValidRaw(norm.q.answer, norm.q.options))
    => IsOption(norm.out, norm.q.options)

C8_Witness ==
  /\ norm.steps >= 1
  /\ norm.q.answer = Str(<<"D">>)
  /\ norm.q.options = << <<"Y">>, <<"x">> >>
  /\ norm.out = Str(<<"Y">>)

\* C9: normalizing a normalized answer against the same options gives it back:
\* normalize(normalize(x, opts), opts) = normalize(x, opts).
C9_NormalizeIdempotent ==
  norm.steps = 2 => norm.again = norm.out

C11_LiteralAnswerTrimmed ==
  (/\ norm.steps >= 1
   /\ norm.q.answer.t = "string"
   /\ norm.q.answer.s # <<>>
   /\ ~IsLetter(norm.q.answer.s))
    => /\ norm.out = Str(trim(norm.q.answer.s))
       /\ trim(norm.out.s) = norm.out.s

(***************************************************************************)
(* Properties of POST /evaluate-level and POST /generate-level-test.       *)
(***************************************************************************)
\* C12: a POST /evaluate-quiz or POST /evaluate-level call, successful or failed,
\* leaves the quiz store as it was (no entry added, removed or changed), so the
\* same quizId and answers scored again give the same response.
C12_EvaluationLeavesStore ==
  [][(/\ req'.route \in {"evaluate-quiz", "evaluate-level"}
      /\ <<req, res>>' # <<req, res>>)
       => /\ answerStore' = answerStore
          /\ req'.route = "evaluate-quiz" =>
               EvaluateResponse(answerStore', req'.quizId, req'.answers) = res']_vars

C12_Witness ==
  /\ req.route = "evaluate-level"
  /\ res.status = 500
  /\ Cardinality(DOMAIN answerStore) = MaxClock + 1
  /\ \A id \in DOMAIN answerStore : Len(answerStore[id].questions) = MaxQuestions

\* The last request was a POST /evaluate-level and has been answered.
LevelAnswered == req.route = "evaluate-level" /\ res # NoResponse

\* C13: POST /evaluate-level answers 400, without any level result, whenever
\* answers or correctAnswers is not an array or the two arrays differ in length.
C13_MalformedLevelRequestRejected ==
  (/\ LevelAnswered
   /\ \/ ~req.answers.isArray
      \/ ~req.correctAnswers.isArray
      \/ Len(req.answers.items) # Len(req.correctAnswers.items))
    => /\ res.status = 400
       /\ ~res.success
       /\ res.level = ""

C13_Witness ==
  /\ LevelAnswered
  /\ req.answers.isArray /\ req.correctAnswers.isArray
  /\ Len(req.answers.items) = MaxLevelLen
  /\ Len(req.correctAnswers.items) = MaxLevelLen - 1
  /\ res.status = 400

\* C14: the level of a successful evaluation depends on the percentage only,
\* with inclusive lower bounds: 80 and above is Advanced, 60 to 79 is
\* Intermediate, below 60 is Beginner.
C14_LevelThresholds ==
  (LevelAnswered /\ res.status = 200) =>
    /\ res.percentage >= 80 => res.level = "Advanced"
    /\ (res.percentage >= 60 /\ res.percentage < 80) => res.level = "Intermediate"
    /\ res.percentage < 60 => res.level = "Beginner"

C14_Witness ==
  /\ LevelAnswered
  /\ res.status = 200
  /\ res.percentage = 59
  /\ res.level = "Beginner"

Parsed == parser.done /\ ~NotParsable(parser.text)

\* The blocks of the parsed text, and the non-blank lines of its only block.
ParsedBlocks == questionBlocks(mcqSection(parser.text.s))
OnlyBlock == blockLines(ParsedBlocks[1])

\* The parser has emitted the question of a text of one block.
ParsedOne == Parsed /\ Len(ParsedBlocks) = 1 /\ Len(parser.out) = 1

\* A line that begins with a letter A-D followed by "." or ")".
IsOptionLine(line) ==
  LET l == trim(line)
  IN  Len(l) >= 2 /\ l[1] \in Letters /\ l[2] \in {".", ")"}

HasMarker(line) == \E k \in 1..Len(line) : line[k] = Marker

\* C16: a "Correct Answer: X" fragment is recorded as the correct-answer letter
\* of its block and stripped from the option text, whether it trails an option
\* line or stands on its own line after the options: with one such fragment in
\* the block, the answer is the option at the position of X and no option
\* carries the fragment.
C16_MarkerRecordedAndStripped ==
  ParsedOne =>
    LET q == parser.out[1]
        marked == {i \in 2..Len(OnlyBlock) : HasMarker(OnlyBlock[i])}
    IN  /\ \A k \in 1..Len(q.options) : ~HasMarker(q.options[k])
        /\ \A i \in marked :
             (/\ marked = {i}
              /\ \/ IsOptionLine(OnlyBlock[i])
                 \/ \A j \in (i + 1)..Len(OnlyBlock) : ~IsOptionLine(OnlyBlock[j])
              /\ markerLetter(OnlyBlock[i]) \in {"A", "B", "C", "D"}
              /\ LetterPosition(<<markerLetter(OnlyBlock[i])>>) < Len(q.options))
               => q.answer = q.options[LetterPosition(<<markerLetter(OnlyBlock[i])>>) + 1]

\* The number of option lines under the first line of a block.
OptionLineCount(block) ==
  Cardinality({i \in 2..Len(blockLines(block)) : IsOptionLine(blockLines(block)[i])})

\* C17: the parser returns a sequence for every input, and the empty sequence
\* for a value that is not a string, for the empty string and for a text no
\* block of which has a question line followed by at least 3 option lines.
C17_ParserTotal ==
  parser.done =>
    /\ DOMAIN parser.out = 1..Len(parser.out)
    /\ (\/ NotParsable(parser.text)
        \/ \A b \in 1..Len(ParsedBlocks) : OptionLineCount(ParsedBlocks[b]) < 3)
         => parser.out = <<>>

C17_Witness ==
  /\ parser.done
  /\ parser.text = Text(<< <<"1", ".", " ", "What">>, PlainA, PlainB, OwnLineB >>)
  /\ parser.out = <<>>

\* What a block is expected to give: its question text and its first 4
\* recovered options at most, when the text is not empty and 3 options or more
\* were recovered; nothing otherwise.
RECURSIVE ExpectedShown(_)
ExpectedShown(blocks) ==
  IF blocks = <<>> THEN <<>>
  ELSE LET lines == blockLines(Head(blocks))
           options == IF lines = <<>> THEN <<>> ELSE recoveredOptions(lines, 2)
       IN  (IF lines # <<>> /\ questionText(lines) # <<>> /\ Len(options) >= 3
              THEN <<[question |-> questionText(lines),
                      options |-> [k \in 1..(IF Len(options) > 4 THEN 4 ELSE Len(options))
                                     |-> options[k]]]>>
              ELSE <<>>)
             \o ExpectedShown(Tail(blocks))

\* C18: a block gives a question exactly when it has a non-empty question text
\* and at least 3 recovered options; the question shows the first 4 recovered
\* options at most, in the order met, so it has 3 or 4 options, and a block
\* that is dropped does not change what the other blocks give.
C18_ThreeOrFourOptions ==
  Parsed =>
    /\ [i \in 1..Len(parser.out) |->
          [question |-> parser.out[i].question, options |-> parser.out[i].options]]
         = ExpectedShown(ParsedBlocks)
    /\ \A i \in 1..Len(parser.out) : Len(parser.out[i].options) \in {3, 4}

C18_Witness ==
  /\ Parsed
  /\ Len(ParsedBlocks) = 2
  /\ Len(recoveredOptions(blockLines(ParsedBlocks[1]), 2)) = 2
  /\ Len(recoveredOptions(blockLines(ParsedBlocks[2]), 2)) = 5
  /\ Len(parser.out) = 1
  /\ Len(parser.out[1].options) = 4

\* C19: the answer of an emitted question is one of its options: the first
\* option when no correct-answer letter was recorded, otherwise the option at
\* the position of the recorded letter (A=0, B=1, ..., either case), and the
\* first option only when that position is outside the emitted options.
C19_AnswerIsDesignatedOption ==
  ParsedOne =>
    LET q == parser.out[1]
        letter == correctAnswer(OnlyBlock, 2, "")
    IN  /\ \E k \in 1..Len(q.options) : q.answer = q.options[k]
        /\ letter = "" => q.answer = q.options[1]
        /\ letter # "" =>
             q.answer = (IF LetterPosition(<<letter>>) < Len(q.options)
                           THEN q.options[LetterPosition(<<letter>>) + 1]
                           ELSE q.options[1])

\* C20: question generation does not surface a provider failure: when the
\* provider raises or returns empty or unparseable content, POST
\* /generate-level-test still answers 200 with a non-empty question set.
C20_ProviderFailureGivesMock ==
  (/\ req.route = "generate-level-test"
   /\ res # NoResponse
   /\ req.provider \in {"throws", "empty", "unparseable"})
    => /\ res.status = 200
       /\ res.questions # <<>>

(***************************************************************************)
(* Properties of failed and empty generations.                             *)
(***************************************************************************)
\* C21: a generation result of zero questions is not stored and not handed out
\* as a success by POST /generate.
C21_NoEmptyQuiz ==
  /\ \A id \in DOMAIN answerStore : answerStore[id].questions # <<>>
  /\ (req.route = "generate" /\ res.status = 200) => res.questions # <<>>

\* C22: a POST /generate that does not answer with success leaves the store as
\* it was, and one that answers with success adds exactly one new entry and
\* keeps the others.
C22_InsertOnlyOnSuccess ==
  [][/\ (pending' < pending /\ res'.status = 200)
          => /\ Cardinality(DOMAIN answerStore') = Cardinality(DOMAIN answerStore) + 1
             /\ \A id \in DOMAIN answerStore :
                  id \in DOMAIN answerStore' /\ answerStore'[id] = answerStore[id]
     /\ (/\ req'.route = "generate"
         /\ res'.status # 200
         /\ <<req, res, pending>>' # <<req, res, pending>>)
          => answerStore' = answerStore]_vars

(***************************************************************************)
(* Properties of the PDF service and the /read-pdf proxy.                  *)
(***************************************************************************)
PdfAnswered == pdf.phase = "answered"

\* The service was asked to read a PDF from github_url.
PdfAsked ==
  /\ PdfAnswered
  /\ pdf.replies # <<>>
  /\ pdf.rpc.kind = "json"
  /\ pdf.rpc.method = "tools/call"
  /\ pdf.rpc.name = "read_github_pdf"

StartsWithMagic(body) ==
  Len(body) >= 4 /\ <<body[1], body[2], body[3], body[4]>> = <<"%", "P", "D", "F">>

ValidGithubUrl(url) == url \in {Str(<<RawUrl>>), Str(<<BlobUrl>>)}

\* The fetch brought back a body that starts with the PDF marker.
FetchedPdf ==
  /\ ValidGithubUrl(pdf.rpc.github_url)
  /\ pdf.fetched.outcome = "ok"
  /\ StartsWithMagic(pdf.fetched.body)

\* C23: text is extracted only from a fetched body whose first four bytes are
\* "%PDF"; for any other body, a failed fetch or an invalid URL pdfParse is not
\* invoked, the service writes exactly one error response without text, and
\* /read-pdf answers with an error and no text.
C23_OnlyPdfBodiesParsed ==
  /\ PdfAnswered =>
       \A i \in 1..Len(pdf.parsed) : FetchedPdf /\ pdf.parsed[i] = pdf.fetched.body
  /\ (PdfAsked /\ ~FetchedPdf) =>
       /\ pdf.parsed = <<>>
       /\ Len(pdf.replies) = 1
       /\ pdf.replies[1].status = 500
       /\ pdf.replies[1].error # ""
       /\ pdf.replies[1].text = Undef
       /\ pdf.via = "proxy" => /\ pdf.proxy.status = 500
                               /\ pdf.proxy.error # ""
                               /\ pdf.proxy.text = Undef

\* A body that holds the marker after its first byte reaches the service through
\* the proxy and is turned down.
C23_Witness ==
  /\ PdfAsked
  /\ pdf.via = "proxy"
  /\ ValidGithubUrl(pdf.rpc.github_url)
  /\ pdf.fetched = [outcome |-> "ok", body |-> <<"x", "%", "P", "D", "F">>]
  /\ pdf.parse.kind = "text"
  /\ pdf.parse.text # <<>>
  /\ pdf.parsed = <<>>
  /\ pdf.proxy.status = 500

(***************************************************************************)
(* Properties of the answer keys and scores outside the server.            *)
(***************************************************************************)
\* The provider gave question q a letter or an index that is not itself the
\* text of one of its options.
RawLetterOrIndex(q) ==
  /\ \/ q.answer.t = "number"
     \/ q.answer.t = "string" /\ IsLetter(q.answer.s)
  /\ \A k \in 1..Len(q.options) : Str(q.options[k]) # q.answer

KeysNotRaw(tally) ==
  \A i \in 1..Len(tally.keys) :
    RawLetterOrIndex(cmp.questions[i]) => tally.keys[i] # cmp.questions[i].answer

\* C25: no comparison has a raw letter or index of the provider on its key side:
\* not the stored key of the server, not the fallback of the client, not the
\* score check of the earlier client, not the correctAnswers of a level test.
C25_KeysAreOptionText ==
  /\ cmp.phase \in {"server", "both"} => KeysNotRaw(cmp.server)
  /\ cmp.phase = "both" => KeysNotRaw(cmp.client)
  /\ cmp.phase = "old" => KeysNotRaw(cmp.old)
  /\ cmp.phase = "level" => KeysNotRaw(cmp.level)

\* C29: the fallback of the client and POST /evaluate-quiz give the same correct
\* count and the same percentage for the same quiz and the same selection.
C29_FallbackAgreesWithServer ==
  cmp.phase = "both" =>
    /\ cmp.response.status = 200
    /\ cmp.client.correct = cmp.server.correct
    /\ cmp.client.score = cmp.server.score

(***************************************************************************)
(* Properties of the browser client.                                       *)
(***************************************************************************)
\* The result card is on the screen.
ResultShown(a) == a.showResult /\ ~a.showTopicInput

\* C24: a quiz session only advances: the index changes by one step with one
\* more recorded answer and a cleared selection, or goes back to zero with a
\* new quiz or session; an answer is recorded only from a selection; and the
\* result card is shown only when every question has a recorded answer.
C24_SessionOnlyAdvances ==
  [][/\ app'.index # app.index =>
          \/ /\ app'.index = app.index + 1
             /\ Len(app'.userAnswers) = Len(app.userAnswers) + 1
             /\ app'.selected = Str(<<>>)
          \/ /\ app'.index = 0
             /\ app'.userAnswers = <<>>
     /\ (app'.userAnswers # app.userAnswers /\ app'.userAnswers # <<>>) =>
          /\ app.selected # Str(<<>>)
          /\ app'.selected = Str(<<>>)
     /\ ResultShown(app') => Len(app'.userAnswers) >= Len(app'.questions)]_vars

\* The state with the loading flag and the requests in flight left aside.
SessionState(a) == [a EXCEPT !.loading = FALSE, !.inflight = <<>>]

EvaluationsInFlight(a) ==
  {i \in 1..Len(a.inflight) : a.inflight[i].op = "evaluateAndShow"}

\* C27: the client sends an evaluation only when none is in flight for the
\* quiz, and the answers it sends are as many as the questions.
C27_OneEvaluationPerQuiz ==
  [][Cardinality(EvaluationsInFlight(app')) > Cardinality(EvaluationsInFlight(app))
       => /\ EvaluationsInFlight(app) = {}
          /\ Len(app'.inflight[Len(app'.inflight)].answers) = Len(app.questions)]_vars

\* C28: on the result card of a quiz the correct count shown is between 0 and
\* the number of questions and the percentage shown is the rounded percentage
\* of that count.
C28_ScoreMatchesCount ==
  (ResultShown(app) /\ app.questions # <<>>) =>
    LET shown == IF app.correctCount # <<>> THEN app.correctCount[1] ELSE 0
    IN  /\ shown \in 0..Len(app.questions)
        /\ app.score = RoundedPercent(shown, Len(app.questions))

\* C30: whenever the loading flag is set it is cleared again, given that every
\* request of the client is answered or fails.
C30_LoadingEnds == app.loading ~> ~app.loading

====
